---- MODULE Spec2Model ----
(***************************************************************************)
(* A model of timeline_json2csv.py: the conversion of a location-history   *)
(* JSON document into a CSV table.                                         *)
(*                                                                         *)
(* Python values are records tagged by their type in field t.  A str is    *)
(* the sequence of its characters (one-character TLA+ strings), so that    *)
(* slicing, splitting, formatting and comparing strings are computed.      *)
(***************************************************************************)
EXTENDS Integers, Sequences, FiniteSets, TLC

VARIABLES
  pc,               \* position in the operation that is running
  arg,              \* argument of the helper function under check
  ret,              \* value returned by the helper function under check
  json_file,        \* the input file: readable or not, and its document
  csv_ok,           \* whether the output path can be created and written
  data,             \* root of the loaded document              (line 77)
  found_positions,  \* result of find_positions(data)          (line 106)
  timeline_data,    \* the rows extracted so far                 (line 80)
  row_src,          \* history: for each row, the record that produced it
  seg_i,            \* index of the next segment of the loop    (line 136)
  df,               \* the DataFrame's index after the sort     (line 218)
  csv_file,         \* the file written, or NoFile              (line 224)
  outcome           \* how the run ended

vars == <<pc, arg, ret, json_file, csv_ok, data, found_positions,
          timeline_data, row_src, seg_i, df, csv_file, outcome>>

---------------------------------------------------------------------------
(* Bounds of the model *)

MaxStrLen == 5     \* longest coordinate string given to the coordinate parser
MaxDepth == 2      \* deepest nesting of a document tree given to the finder
MaxItems == 2      \* longest sequence node of such a tree
MaxSegs == 2       \* most semantic segments of a document

---------------------------------------------------------------------------
(* Python values *)

Null == [t |-> "null"]
Str(s) == [t |-> "str", s |-> s]
Num(n) == [t |-> "num", n |-> n]
Map(kv) == [t |-> "map", kv |-> kv]
List(items) == [t |-> "list", items |-> items]
\* a float: (-1)^neg * digs / 10^scale, digs a sequence of decimal digits
Float(neg, digs, scale) == [t |-> "float", neg |-> neg, digs |-> digs, scale |-> scale]

\* bool(v)
Truthy(v) ==
  CASE v.t = "null" -> FALSE
    [] v.t = "str" -> v.s # <<>>
    [] v.t = "num" -> v.n # 0
    [] v.t = "map" -> v.kv # <<>>
    [] v.t = "list" -> v.items # <<>>
    [] OTHER -> TRUE

\* the result of a block that may raise
Ok(v) == [exc |-> FALSE, v |-> v]
Raise == [exc |-> TRUE]

RECURSIVE Concat(_)
Concat(ss) == IF ss = <<>> THEN <<>> ELSE Head(ss) \o Concat(Tail(ss))

SeqsUpTo(S, n) == UNION {[1..k -> S] : k \in 0..n}

---------------------------------------------------------------------------
(* Characters and numbers *)

DigitChars == <<"0", "1", "2", "3", "4", "5", "6", "7", "8", "9">>
IsDigit(c) == \E i \in 1..10 : DigitChars[i] = c
DigitVal(c) == (CHOOSE i \in 1..10 : DigitChars[i] = c) - 1
AllDigits(s) == \A i \in 1..Len(s) : IsDigit(s[i])

RECURSIVE ToInt(_)
ToInt(s) == IF s = <<>> THEN 0 ELSE 10 * ToInt(SubSeq(s, 1, Len(s) - 1)) + DigitVal(s[Len(s)])

\* n as w decimal digits, zero-padded (%02d, %04d, %06d)
RECURSIVE Pad(_, _)
Pad(n, w) == IF w = 0 THEN <<>> ELSE Pad(n \div 10, w - 1) \o <<DigitChars[(n % 10) + 1]>>

\* characters outside ASCII
NonAscii == {"°", "é"}
IsAscii(c) == c \notin NonAscii

---------------------------------------------------------------------------
(* parse_datetime, lines 8-35 *)

\* dateutil.parser.isoparse on YYYY-MM-DDTHH:MM:SS[.f{1,6}][Z|±HH:MM]; every
\* other string of the model's inputs makes it raise ValueError
TzPart(s) == IF s # <<>> /\ s[Len(s)] = "Z" THEN <<"Z">>
             ELSE IF Len(s) >= 6 /\ s[Len(s) - 5] \in {"+", "-"} THEN SubSeq(s, Len(s) - 5, Len(s))
             ELSE <<>>
ValidTz(z) == \/ z = <<>>
              \/ z = <<"Z">>
              \/ /\ Len(z) = 6 /\ z[4] = ":"
                 /\ AllDigits(SubSeq(z, 2, 3)) /\ AllDigits(SubSeq(z, 5, 6))
                 /\ ToInt(SubSeq(z, 2, 3)) <= 23 /\ ToInt(SubSeq(z, 5, 6)) <= 59
ValidFrac(f) == f = <<>> \/ (f[1] = "." /\ Len(f) \in 2..7 /\ AllDigits(Tail(f)))
isoparse(s) ==
  IF Len(s) < 19 THEN Raise
  ELSE LET z == TzPart(SubSeq(s, 20, Len(s)))
           f == SubSeq(s, 20, Len(s) - Len(z))
       IN IF /\ s[5] = "-" /\ s[8] = "-" /\ s[11] = "T" /\ s[14] = ":" /\ s[17] = ":"
             /\ AllDigits(SubSeq(s, 1, 4)) /\ AllDigits(SubSeq(s, 6, 7))
             /\ AllDigits(SubSeq(s, 9, 10)) /\ AllDigits(SubSeq(s, 12, 13))
             /\ AllDigits(SubSeq(s, 15, 16)) /\ AllDigits(SubSeq(s, 18, 19))
             /\ ToInt(SubSeq(s, 1, 4)) >= 1000
             /\ ToInt(SubSeq(s, 6, 7)) \in 1..12 /\ ToInt(SubSeq(s, 9, 10)) \in 1..28
             /\ ToInt(SubSeq(s, 12, 13)) <= 23 /\ ToInt(SubSeq(s, 15, 16)) <= 59
             /\ ToInt(SubSeq(s, 18, 19)) <= 59
             /\ ValidFrac(f) /\ ValidTz(z)
          THEN Ok([year |-> ToInt(SubSeq(s, 1, 4)), month |-> ToInt(SubSeq(s, 6, 7)),
                   day |-> ToInt(SubSeq(s, 9, 10)), hour |-> ToInt(SubSeq(s, 12, 13)),
                   minute |-> ToInt(SubSeq(s, 15, 16)), second |-> ToInt(SubSeq(s, 18, 19)),
                   \* the fraction right-padded with zeros to microseconds
                   microsecond |-> IF f = <<>> THEN 0
                                   ELSE ToInt(Tail(f) \o [i \in 1..(7 - Len(f)) |-> "0"]),
                   \* tzinfo: None, or the offset's sign and minutes
                   tzinfo |-> IF z = <<>> THEN <<>>
                              ELSE IF z = <<"Z">> THEN <<"+", 0>>
                              ELSE <<z[1], 60 * ToInt(SubSeq(z, 2, 3)) + ToInt(SubSeq(z, 5, 6))>>])
          ELSE Raise

\* parsed_dt.strftime('%Y-%m-%d %H:%M:%S.%f')
strftime(dt) ==
  Pad(dt.year, 4) \o <<"-">> \o Pad(dt.month, 2) \o <<"-">> \o Pad(dt.day, 2) \o <<" ">>
  \o Pad(dt.hour, 2) \o <<":">> \o Pad(dt.minute, 2) \o <<":">> \o Pad(dt.second, 2)
  \o <<".">> \o Pad(dt.microsecond, 6)

\* parsed_dt.strftime('%z'): '' for a naive datetime, else +HHMM or -HHMM
strftime_z(dt) ==
  IF dt.tzinfo = <<>> THEN <<>>
  ELSE <<dt.tzinfo[1]>> \o Pad(dt.tzinfo[2] \div 60, 2) \o Pad(dt.tzinfo[2] % 60, 2)

\* the try block, lines 16-32
parse_datetime_try(datetime_str) ==
  IF ~Truthy(datetime_str) THEN Ok(<<Null, Null>>)
  ELSE IF datetime_str.t # "str" THEN Raise
  ELSE LET parsed == isoparse(datetime_str.s)
       IN IF parsed.exc THEN Raise
          ELSE LET parsed_dt == parsed.v
                   full == strftime(parsed_dt)
                   formatted_dt == SubSeq(full, 1, Len(full) - 3)
                   offset == strftime_z(parsed_dt)
               IN Ok(<<Str(formatted_dt),
                       Str(IF offset # <<>>
                           THEN SubSeq(offset, 1, 3) \o <<":">> \o SubSeq(offset, 4, Len(offset))
                           ELSE offset)>>)

\* mutant: the offset is reformatted without the test of line 29
parse_datetime_always_colon(datetime_str) ==
  LET r == parse_datetime_try(datetime_str)
  IN IF r.exc THEN <<Null, Null>>
     ELSE <<r.v[1], IF r.v[2].t = "str" /\ r.v[2].s = <<>> THEN Str(<<":">>) ELSE r.v[2]>>

\* lines 15-35: every exception of the try block yields (None, None)
parse_datetime(datetime_str) ==
  LET r == parse_datetime_try(datetime_str)
  IN IF r.exc THEN <<Null, Null>> ELSE r.v

---------------------------------------------------------------------------
(* clean_and_parse_coordinates, lines 37-60 *)

\* point.encode('ascii', 'ignore').decode('ascii')
AsciiOnly(s) == SelectSeq(s, IsAscii)

\* s.replace(c, '') for a one-character c
Without(s, c) == SelectSeq(s, LAMBDA x : x # c)

\* s.split(','): the pieces between the commas, always at least one
RECURSIVE Split(_, _)
Split(s, sep) ==
  IF \A i \in 1..Len(s) : s[i] # sep THEN <<s>>
  ELSE LET k == CHOOSE i \in 1..Len(s) : s[i] = sep /\ \A j \in 1..(i - 1) : s[j] # sep
       IN <<SubSeq(s, 1, k - 1)>> \o Split(SubSeq(s, k + 1, Len(s)), sep)

RECURSIVE StripLeft(_, _)
StripLeft(s, c) == IF s # <<>> /\ Head(s) = c THEN StripLeft(Tail(s), c) ELSE s
RECURSIVE StripRight(_, _)
StripRight(s, c) == IF s # <<>> /\ s[Len(s)] = c THEN StripRight(SubSeq(s, 1, Len(s) - 1), c) ELSE s

\* float(s) on [ws][+|-](digits[.digits] | .digits)[ws]; every other string of
\* the model's inputs makes it raise ValueError
float(s) ==
  LET body == StripRight(StripLeft(s, " "), " ")
      signed == body # <<>> /\ body[1] \in {"+", "-"}
      mag == IF signed THEN Tail(body) ELSE body
      parts == Split(mag, ".")
  IN IF Len(parts) \in 1..2 /\ (\A i \in 1..Len(parts) : AllDigits(parts[i]))
        /\ Len(mag) > Len(parts) - 1
     THEN LET frac == IF Len(parts) = 2 THEN StripRight(parts[2], "0") ELSE <<>>
          IN Ok(Float(signed /\ body[1] = "-", StripLeft(parts[1] \o frac, "0"), Len(frac)))
     ELSE Raise

\* the try block, lines 46-57
two_floats(parsed) ==
  IF parsed[1].exc \/ parsed[2].exc THEN Raise ELSE Ok(<<parsed[1].v, parsed[2].v>>)
split_and_convert(coordinates) ==
  IF Len(coordinates) = 2
  THEN two_floats([i \in 1..2 |-> float(coordinates[i])])
  ELSE Ok(<<Null, Null>>)
clean_and_parse_coordinates_try(point) ==
  IF point.t = "str"
  THEN split_and_convert(Split(Without(Without(AsciiOnly(point.s), "°"), " "), ","))
  ELSE Ok(<<Null, Null>>)

\* mutant: the spaces are not removed (line 48 without .replace(' ', ''))
clean_and_parse_coordinates_keep_spaces(point) ==
  IF point.t = "str" /\ \E i \in 1..Len(point.s) : point.s[i] = " "
  THEN <<Null, Null>>
  ELSE IF clean_and_parse_coordinates_try(point).exc THEN <<Null, Null>>
  ELSE clean_and_parse_coordinates_try(point).v

\* lines 44-60: every exception of the try block yields (None, None)
clean_and_parse_coordinates(point) ==
  LET r == clean_and_parse_coordinates_try(point)
  IN IF r.exc THEN <<Null, Null>> ELSE r.v

\* str(v) of lines 120 and 154, for the values the model's documents hold there
str(v) ==
  CASE v.t = "str" -> v
    [] v.t = "null" -> Str(<<"N", "o", "n", "e">>)
    [] v.t = "num" -> Str(Pad(v.n, 1))
    [] v.t = "map" -> Str(<<"{", "}">>)
    [] OTHER -> Str(<<"[", "]">>)

---------------------------------------------------------------------------
(* find_positions, lines 83-103 *)

HasKey(obj, key) == \E i \in 1..Len(obj.kv) : obj.kv[i][1] = key

\* 'LatLng' in obj and 'timestamp' in obj
IsPositionDict(obj) == obj.t = "map" /\ HasKey(obj, "LatLng") /\ HasKey(obj, "timestamp")

\* The positions found, each named by its path from the root (the index of the
\* entry or item taken at each level): the code returns references to the nodes,
\* and the path is the node's identity.
RECURSIVE find_positions(_, _)
find_positions(obj, path) ==
  IF obj.t = "map"
  THEN (IF HasKey(obj, "LatLng") /\ HasKey(obj, "timestamp") THEN <<path>> ELSE <<>>)
       \o Concat([i \in 1..Len(obj.kv) |-> find_positions(obj.kv[i][2], path \o <<i>>)])
  ELSE IF obj.t = "list"
  THEN Concat([i \in 1..Len(obj.items) |->
                 (IF obj.items[i].t = "map"
                     /\ HasKey(obj.items[i], "LatLng") /\ HasKey(obj.items[i], "timestamp")
                  THEN <<path \o <<i>>>> ELSE <<>>)
                 \o find_positions(obj.items[i], path \o <<i>>)])
  ELSE <<>>

\* the node of a tree at a path
RECURSIVE NodeAt(_, _)
NodeAt(obj, path) ==
  IF path = <<>> THEN obj
  ELSE IF obj.t = "map" THEN NodeAt(obj.kv[Head(path)][2], Tail(path))
  ELSE NodeAt(obj.items[Head(path)], Tail(path))

\* obj.get(key, default) of a dict
Get(obj, key, default) ==
  IF HasKey(obj, key)
  THEN obj.kv[CHOOSE i \in 1..Len(obj.kv) : obj.kv[i][1] = key][2]
  ELSE default

---------------------------------------------------------------------------
(* convert_timeline_to_csv, lines 62-236 *)

\* a or b
Or(a, b) == IF Truthy(a) THEN a ELSE b

\* the items a for loop (and len) takes from a value: the items of a list, the
\* characters of a str, the keys of a dict; None and numbers raise TypeError
Iter(v) ==
  CASE v.t = "list" -> Ok(v.items)
    [] v.t = "str" -> Ok([i \in 1..Len(v.s) |-> Str(<<v.s[i]>>)])
    [] v.t = "map" -> Ok([i \in 1..Len(v.kv) |-> Str(<<v.kv[i][1]>>)])
    [] OTHER -> Raise

\* lines 112-128: the row of one position
position_entry(position) ==
  LET latlng == Get(position, "LatLng", Null)
      latlon == clean_and_parse_coordinates(latlng)
      time == parse_datetime(Get(position, "timestamp", Null))
  IN Map(<<<<"Time", time[1]>>,
           <<"Time Offset", time[2]>>,
           <<"Point", str(latlng)>>,
           <<"Latitude", latlon[1]>>,
           <<"Longitude", latlon[2]>>,
           <<"Accuracy Meters", Get(position, "accuracyMeters", Null)>>,
           <<"Altitude Meters", Get(position, "altitudeMeters", Null)>>,
           <<"Source", Get(position, "source", Str(<<>>))>>,
           <<"Speed Meters/Second", Get(position, "speedMetersPerSecond", Num(0))>>,
           <<"Segment Type", Str(<<"Position">>)>>>>)

\* mutant: the offset follows the source of the time instead of falling back
\* on its own (line 149 as "path_time_offset if path_time else start_offset")
path_entry_offset_follows_time(path, start, end) ==
  Map(<<<<"Time", Or(parse_datetime(Get(path, "time", Null))[1], start[1])>>,
        <<"Time Offset", IF Truthy(parse_datetime(Get(path, "time", Null))[1])
                         THEN parse_datetime(Get(path, "time", Null))[2]
                         ELSE start[2]>>,
        <<"Start Time", start[1]>>,
        <<"Start Time Offset", start[2]>>,
        <<"End Time", end[1]>>,
        <<"End Time Offset", end[2]>>,
        <<"Point", str(Get(path, "point", Null))>>,
        <<"Latitude", clean_and_parse_coordinates(Get(path, "point", Null))[1]>>,
        <<"Longitude", clean_and_parse_coordinates(Get(path, "point", Null))[2]>>,
        <<"Segment Type", Str(<<"Timeline Path">>)>>>>)

\* lines 143-158: the row of one timeline-path point; start and end are the
\* segment's parsed times of lines 137-138
path_entry(path, start, end) ==
  LET point == Get(path, "point", Null)
      path_time == parse_datetime(Get(path, "time", Null))
      latlon == clean_and_parse_coordinates(point)
  IN Map(<<<<"Time", Or(path_time[1], start[1])>>,
           <<"Time Offset", Or(path_time[2], start[2])>>,
           <<"Start Time", start[1]>>,
           <<"Start Time Offset", start[2]>>,
           <<"End Time", end[1]>>,
           <<"End Time Offset", end[2]>>,
           <<"Point", str(point)>>,
           <<"Latitude", latlon[1]>>,
           <<"Longitude", latlon[2]>>,
           <<"Segment Type", Str(<<"Timeline Path">>)>>>>)

\* lines 142-159: the loop over the points stops with AttributeError at the
\* first point that is no dict, the rows of the points before it appended
PathPrefix(paths) ==
  IF \A j \in 1..Len(paths) : paths[j].t = "map" THEN Len(paths)
  ELSE (CHOOSE j \in 1..Len(paths) : paths[j].t # "map" /\ \A k \in 1..(j - 1) : paths[k].t = "map") - 1

\* lines 164-180: the row of a visit; raises AttributeError when the top
\* candidate or its place location is no dict
visit_row(visit, start, end, top_candidate, latlon) ==
  Map(<<<<"Time", start[1]>>,
        <<"Time Offset", start[2]>>,
        <<"Start Time", start[1]>>,
        <<"Start Time Offset", start[2]>>,
        <<"End Time", end[1]>>,
        <<"End Time Offset", end[2]>>,
        <<"Segment Type", Str(<<"Visit">>)>>,
        <<"Hierarchy Level", Get(visit, "hierarchyLevel", Null)>>,
        <<"Visit Probability", Get(visit, "probability", Null)>>,
        <<"Place ID", Get(top_candidate, "placeId", Null)>>,
        <<"Semantic Type", Get(top_candidate, "semanticType", Null)>>,
        <<"Place Probability", Get(top_candidate, "probability", Null)>>,
        <<"Latitude", latlon[1]>>,
        <<"Longitude", latlon[2]>>>>)
visit_entry(visit, start, end) ==
  IF visit.t # "map" THEN Raise
  ELSE IF Get(visit, "topCandidate", Map(<<>>)).t # "map" THEN Raise
  ELSE IF Get(Get(visit, "topCandidate", Map(<<>>)), "placeLocation", Map(<<>>)).t # "map" THEN Raise
  ELSE Ok(visit_row(visit, start, end, Get(visit, "topCandidate", Map(<<>>)),
                    clean_and_parse_coordinates(
                      Get(Get(Get(visit, "topCandidate", Map(<<>>)), "placeLocation", Map(<<>>)),
                          "latLng", Null))))

\* lines 186-205: the row of an activity; raises AttributeError when its start,
\* its end or its top candidate is no dict
activity_row(activity, start, end, top_candidate, latlon) ==
  Map(<<<<"Time", start[1]>>,
        <<"Time Offset", start[2]>>,
        <<"Start Time", start[1]>>,
        <<"Start Time Offset", start[2]>>,
        <<"End Time", end[1]>>,
        <<"End Time Offset", end[2]>>,
        <<"Segment Type", Str(<<"Activity">>)>>,
        <<"Start Latitude", latlon["start"][1]>>,
        <<"Start Longitude", latlon["start"][2]>>,
        <<"End Latitude", latlon["end"][1]>>,
        <<"End Longitude", latlon["end"][2]>>,
        <<"Distance Meters", Get(activity, "distanceMeters", Null)>>,
        <<"Activity Type", Get(top_candidate, "type", Null)>>,
        <<"Activity Probability", Get(top_candidate, "probability", Null)>>>>)
activity_entry(activity, start, end) ==
  IF activity.t # "map" THEN Raise
  ELSE IF \E k \in {"start", "end", "topCandidate"} : Get(activity, k, Map(<<>>)).t # "map"
  THEN Raise
  ELSE Ok(activity_row(activity, start, end, Get(activity, "topCandidate", Map(<<>>)),
                       [k \in {"start", "end"} |->
                          clean_and_parse_coordinates(
                            Get(Get(activity, k, Map(<<>>)), "latLng", Null))]))

\* lines 137-206: one pass of the loop body; rows are the rows appended, kinds
\* what produced each of them, exc whether the pass raised
Pass(exc, rows, kinds) == [exc |-> exc, rows |-> rows, kinds |-> kinds]

\* lines 161-206, given the rows of the points, the visit and activity values
\* and the outcome of building their rows
visit_and_activity(rows, kinds, visit, v_entry, activity, a_entry) ==
  IF Truthy(visit) /\ v_entry.exc THEN Pass(TRUE, rows, kinds)
  ELSE IF ~Truthy(activity)
  THEN Pass(FALSE,
            rows \o (IF Truthy(visit) THEN <<v_entry.v>> ELSE <<>>),
            kinds \o (IF Truthy(visit) THEN <<<<"visit", 0>>>> ELSE <<>>))
  ELSE IF a_entry.exc
  THEN Pass(TRUE,
            rows \o (IF Truthy(visit) THEN <<v_entry.v>> ELSE <<>>),
            kinds \o (IF Truthy(visit) THEN <<<<"visit", 0>>>> ELSE <<>>))
  ELSE Pass(FALSE,
            rows \o (IF Truthy(visit) THEN <<v_entry.v>> ELSE <<>>) \o <<a_entry.v>>,
            kinds \o (IF Truthy(visit) THEN <<<<"visit", 0>>>> ELSE <<>>) \o <<<<"activity", 0>>>>)

\* lines 141-206, given the segment's parsed times and the points iterated
paths_then_rest(segment, time, timeline_paths) ==
  IF timeline_paths.exc THEN Pass(TRUE, <<>>, <<>>)
  ELSE IF PathPrefix(timeline_paths.v) < Len(timeline_paths.v)
  THEN Pass(TRUE,
            [j \in 1..PathPrefix(timeline_paths.v) |->
               path_entry(timeline_paths.v[j], time["startTime"], time["endTime"])],
            [j \in 1..PathPrefix(timeline_paths.v) |-> <<"path", j>>])
  ELSE visit_and_activity(
         [j \in 1..Len(timeline_paths.v) |->
            path_entry(timeline_paths.v[j], time["startTime"], time["endTime"])],
         [j \in 1..Len(timeline_paths.v) |-> <<"path", j>>],
         Get(segment, "visit", Null),
         visit_entry(Get(segment, "visit", Null), time["startTime"], time["endTime"]),
         Get(segment, "activity", Null),
         activity_entry(Get(segment, "activity", Null), time["startTime"], time["endTime"]))

process_segment(segment) ==
  IF segment.t # "map" THEN Pass(TRUE, <<>>, <<>>)
  ELSE paths_then_rest(segment,
                       [k \in {"startTime", "endTime"} |-> parse_datetime(Get(segment, k, Null))],
                       Iter(Get(segment, "timelinePath", List(<<>>))))

\* line 133 and the loop header of line 136: the segments iterated
semantic_segments == Iter(Get(data, "semanticSegments", List(<<>>)))

\* Python's order of str: by code point, a proper prefix first
CharOrder == <<" ", "+", "-", ".", "0", "1", "2", "3", "4", "5", "6", "7", "8", "9", ":">>
Ord(c) == CHOOSE i \in 1..Len(CharOrder) : CharOrder[i] = c
RECURSIVE StrLess(_, _)
StrLess(a, b) ==
  IF b = <<>> THEN FALSE
  ELSE IF a = <<>> THEN TRUE
  ELSE IF Head(a) = Head(b) THEN StrLess(Tail(a), Tail(b))
  ELSE Ord(Head(a)) < Ord(Head(b))

RowTime(row) == Get(row, "Time", Null)

RECURSIVE Perms(_)
Perms(S) == IF S = {} THEN {<<>>} ELSE UNION {{<<x>> \o q : q \in Perms(S \ {x})} : x \in S}
RECURSIVE Ascending(_)
Ascending(S) ==
  IF S = {} THEN <<>> ELSE LET m == CHOOSE x \in S : \A y \in S : x <= y IN <<m>> \o Ascending(S \ {m})

\* mutant: the frame is written as extracted, never sorted (line 218 dropped)
sort_values_unsorted(rows) == {[i \in 1..Len(rows) |-> i]}

\* line 218, df.sort_values('Time') with the default kind='quicksort' and
\* na_position='last': the rows with a Time ascending by it, rows of equal Time
\* in an order the sort does not fix (quicksort is not stable), then the rows
\* without a Time in their order.  The result is the sorted frame's index.
RECURSIVE TimeGroups(_, _)
TimeGroups(rows, left) ==
  IF left = {} THEN {<<>>}
  ELSE LET least == {i \in left : \A j \in left : ~StrLess(RowTime(rows[j]).s, RowTime(rows[i]).s)}
       IN {g \o rest : g \in Perms(least), rest \in TimeGroups(rows, left \ least)}
sort_values(rows) ==
  LET timed == {i \in 1..Len(rows) : RowTime(rows[i]).t # "null"}
  IN {o \o Ascending((1..Len(rows)) \ timed) : o \in TimeGroups(rows, timed)}

\* mutant: the columns are those of the first row alone
Columns_of_first_row(rows, seen) ==
  IF rows = <<>> THEN seen ELSE [i \in 1..Len(Head(rows).kv) |-> Head(rows).kv[i][1]]

\* line 214, pd.DataFrame(timeline_data).columns: the keys of the rows, each at
\* its first appearance
RECURSIVE Columns(_, _)
Columns(rows, seen) ==
  IF rows = <<>> THEN seen
  ELSE LET keys == [i \in 1..Len(Head(rows).kv) |-> Head(rows).kv[i][1]]
       IN Columns(Tail(rows),
                  seen \o SelectSeq(keys, LAMBDA k : \A i \in 1..Len(seen) : seen[i] # k))

\* line 224, to_csv: a cell is empty for None and for a key the row lacks (NaN)
Cell(row, column) ==
  IF Get(row, column, Null).t = "null" THEN Str(<<>>) ELSE Get(row, column, Null)
to_csv(rows, index) ==
  LET columns == Columns(rows, <<>>)
  IN [header |-> columns,
      rows |-> [i \in 1..Len(index) |->
                  [c \in 1..Len(columns) |-> Cell(rows[index[i]], columns[c])]]]

---------------------------------------------------------------------------
(* Inputs of the helper functions *)

IsoString(y, mo, d, h, mi, sec, frac, tz) ==
  Pad(y, 4) \o <<"-">> \o Pad(mo, 2) \o <<"-">> \o Pad(d, 2) \o <<"T">>
  \o Pad(h, 2) \o <<":">> \o Pad(mi, 2) \o <<":">> \o Pad(sec, 2) \o frac \o tz

Fracs == {<<>>, <<".", "2", "5", "0">>, <<".", "2", "5", "0", "9", "9", "9">>, <<".", "5">>}
TzSuffixes == {<<"Z">>, <<"+", "0", "5", ":", "0", "0">>, <<"-", "0", "3", ":", "3", "0">>,
               <<"+", "0", "0", ":", "0", "0">>}
IsoStrings ==
  {IsoString(y, mo, 1, h, 30, sec, frac, tz) :
     y \in {1999, 2023}, mo \in {6, 12}, h \in {0, 14, 23}, sec \in {0, 59},
     frac \in Fracs, tz \in TzSuffixes \cup {<<>>}}
Garbage == <<"g", "a", "r", "b", "a", "g", "e">>
BadStrings ==
  {Garbage,
   <<"2", "0", "2", "3", "-", "0", "6", "-", "0", "1", "T", "1", "4", ":", "3">>,
   IsoString(2023, 13, 1, 14, 30, 0, <<>>, <<>>),
   IsoString(2023, 6, 1, 25, 30, 0, <<>>, <<"Z">>),
   IsoString(2023, 6, 1, 14, 30, 0, <<".">>, <<>>),
   IsoString(2023, 6, 1, 14, 30, 0, <<>>, <<"+", "0", "5", ":", "x", "0">>)}
NonStrings == {Null, Num(0), Num(5), Map(<<>>), List(<<>>), List(<<Null>>)}
DatetimeInputs ==
  {Str(s) : s \in IsoStrings \cup BadStrings \cup {<<>>}} \cup NonStrings

CoordChars == {"1", ".", "-", ",", "°", " ", "x"}
Example_clean == <<"1", "2", ".", "5", ",", "-", "6", "7", ".", "2", "5">>
Example_decorated ==
  <<"1", "2", ".", "5", "°", ",", " ", "-", "6", "7", ".", "2", "5", "°">>
Example_bad ==
  <<"n", "o", "t", ",", "a", ",", "n", "u", "m", "b", "e", "r", ",", "p", "a", "i", "r">>
CoordinateInputs ==
  {Str(s) : s \in SeqsUpTo(CoordChars, MaxStrLen)
              \cup {Example_clean, Example_decorated, Example_bad,
                    <<"é", "1", ",", "1", "0", ".", "5", "0", "é">>}}
  \cup NonStrings

\* Document trees: scalars, maps with or without the two position keys and
\* with or without a nested value under a third key, and sequences.
LatLngValue == Str(<<"1", ",", "1">>)
TimestampValue == Str(IsoString(2023, 6, 1, 14, 30, 0, <<>>, <<"Z">>))
KeyShapes == {<<>>, <<<<"LatLng", LatLngValue>>>>,
              <<<<"LatLng", LatLngValue>>, <<"timestamp", TimestampValue>>>>}
RECURSIVE Trees(_)
Trees(d) ==
  IF d = 0 THEN {Str(<<"s">>)}
  ELSE LET sub == Trees(d - 1)
       IN {Str(<<"s">>)}
          \cup {Map(ks) : ks \in KeyShapes}
          \cup {Map(ks \o <<<<"x", c>>>>) : ks \in KeyShapes, c \in sub}
          \cup {List(items) : items \in SeqsUpTo(sub, MaxItems)}

---------------------------------------------------------------------------
(* Specifications of the helper functions: the argument is drawn from the *)
(* inputs, the call returns.                                               *)

NoFile == [t |-> "nofile"]

ConvertIdle ==
  /\ json_file = [readable |-> FALSE] /\ csv_ok = FALSE /\ data = Null
  /\ found_positions = <<>> /\ timeline_data = <<>> /\ row_src = <<>>
  /\ seg_i = 0 /\ df = <<>> /\ csv_file = NoFile /\ outcome = "none"
ConvertUnchanged ==
  UNCHANGED <<json_file, csv_ok, data, found_positions, timeline_data, row_src,
              seg_i, df, csv_file, outcome>>

InitParseDatetime == pc = "call" /\ arg \in DatetimeInputs /\ ret = <<>> /\ ConvertIdle
CallParseDatetime ==
  /\ pc = "call"
  /\ ret' = parse_datetime(arg)
  /\ pc' = "done"
  /\ UNCHANGED arg /\ ConvertUnchanged
SpecParseDatetime == InitParseDatetime /\ [][CallParseDatetime]_vars

InitCoordinates == pc = "call" /\ arg \in CoordinateInputs /\ ret = <<>> /\ ConvertIdle
CallCoordinates ==
  /\ pc = "call"
  /\ ret' = clean_and_parse_coordinates(arg)
  /\ pc' = "done"
  /\ UNCHANGED arg /\ ConvertUnchanged
SpecCoordinates == InitCoordinates /\ [][CallCoordinates]_vars

InitFindPositions == pc = "call" /\ arg \in Trees(MaxDepth) /\ ret = <<>> /\ ConvertIdle
CallFindPositions ==
  /\ pc = "call"
  /\ ret' = find_positions(arg, <<>>)
  /\ pc' = "done"
  /\ UNCHANGED arg /\ ConvertUnchanged
SpecFindPositions == InitFindPositions /\ [][CallFindPositions]_vars

---------------------------------------------------------------------------
(* Documents given to convert_timeline_to_csv *)

Absent == [t |-> "absent"]
\* a dict of the pairs whose value is not Absent
MapOf(pairs) == Map(SelectSeq(pairs, LAMBDA q : q[2].t # "absent"))

T_start == Str(IsoString(2023, 6, 1, 14, 30, 0, <<".", "2", "5", "0">>, <<"+", "0", "5", ":", "0", "0">>))
T_start_naive == Str(IsoString(2023, 6, 1, 9, 0, 0, <<>>, <<>>))
T_end == Str(IsoString(2023, 6, 1, 15, 0, 0, <<>>, <<"Z">>))
T_point == Str(IsoString(2023, 6, 1, 14, 31, 0, <<>>, <<"-", "0", "3", ":", "3", "0">>))
T_point_naive == Str(IsoString(2023, 6, 1, 14, 29, 0, <<>>, <<>>))

P_own == Map(<<<<"point", Str(Example_decorated)>>, <<"time", T_point>>>>)
P_plain == Map(<<<<"point", Str(Example_clean)>>>>)
P_naive == Map(<<<<"point", Str(<<"1", ",", "1">>)>>, <<"time", T_point_naive>>>>)
P_garbled == Map(<<<<"point", Null>>, <<"time", Str(Garbage)>>>>)

V_full ==
  Map(<<<<"hierarchyLevel", Num(1)>>, <<"probability", Num(1)>>,
        <<"topCandidate",
          Map(<<<<"placeId", Str(<<"p">>)>>, <<"semanticType", Str(<<"h">>)>>,
                <<"probability", Num(1)>>,
                <<"placeLocation", Map(<<<<"latLng", Str(Example_decorated)>>>>)>>>>)>>>>)
V_bare == Map(<<<<"hierarchyLevel", Num(1)>>>>)
A_full ==
  Map(<<<<"start", Map(<<<<"latLng", Str(Example_clean)>>>>)>>,
        <<"end", Map(<<<<"latLng", Str(<<"1", ",", "1">>)>>>>)>>,
        <<"distanceMeters", Num(7)>>,
        <<"topCandidate", Map(<<<<"type", Str(<<"w">>)>>, <<"probability", Num(1)>>>>)>>>>)

Segment(start, end, paths, visit, activity) ==
  MapOf(<<<<"startTime", start>>, <<"endTime", end>>, <<"timelinePath", paths>>,
          <<"visit", visit>>, <<"activity", activity>>>>)

\* the segment of the specification's example: two points, a visit, an activity
ExampleSegment == Segment(T_start, T_end, List(<<P_own, P_plain>>), V_full, A_full)

WellFormedSegments ==
  {Map(<<>>),
   Segment(T_start, T_end, List(<<P_own>>), Absent, Absent),
   Segment(T_start, T_end, List(<<P_plain>>), Absent, Absent),
   Segment(T_start_naive, Absent, List(<<P_naive>>), Absent, Absent),
   Segment(T_start, Absent, List(<<P_naive, P_garbled>>), Absent, Absent),
   Segment(Absent, T_end, List(<<P_plain>>), Absent, Absent),
   Segment(T_start, T_end, Absent, V_full, Absent),
   Segment(T_start, T_end, Absent, Map(<<>>), Absent),
   Segment(T_start_naive, T_end, List(<<>>), V_bare, A_full),
   Segment(T_start, T_end, Absent, Null, Map(<<>>))}
MalformedSegments ==
  {Null,
   Segment(T_start, T_end, Null, Absent, Absent),
   Segment(T_start, T_end, List(<<P_plain, Null>>), Absent, Absent),
   Segment(T_start, T_end, Absent, Str(<<"x">>), Absent),
   Segment(T_start, T_end, Absent, Map(<<<<"topCandidate", Null>>>>), Absent),
   Segment(T_start, T_end, Absent, Absent, Map(<<<<"start", Null>>>>))}
Segments == WellFormedSegments \cup MalformedSegments
\* the segments that documents combine freely
CoreSegments ==
  {Segment(T_start, T_end, List(<<P_plain>>), Absent, Absent),
   Segment(T_start, Absent, List(<<P_naive, P_garbled>>), Absent, Absent),
   Segment(Absent, T_end, List(<<P_plain>>), Absent, Absent),
   Segment(T_start, T_end, Absent, V_full, Absent),
   Segment(T_start_naive, T_end, List(<<>>), V_bare, A_full),
   Null}

Pos_full ==
  Map(<<<<"LatLng", Str(Example_decorated)>>, <<"timestamp", T_start>>,
        <<"accuracyMeters", Num(5)>>, <<"source", Str(<<"g">>)>>>>)
Pos_other ==
  Map(<<<<"LatLng", Str(<<"1", ",", "1">>)>>, <<"timestamp", T_end>>,
        <<"speedMetersPerSecond", Num(3)>>>>)
Pos_garbled == Map(<<<<"LatLng", Null>>, <<"timestamp", Str(Garbage)>>>>)

PositionParts ==
  {Absent, Pos_full, List(<<Pos_full, Pos_other>>), Map(<<<<"y", List(<<Pos_garbled>>)>>>>)}
SegmentParts ==
  {Absent, Null, List(<<ExampleSegment>>)}
  \cup {List(segs) : segs \in SeqsUpTo(CoreSegments, MaxSegs)}
  \cup {List(<<seg>>) : seg \in Segments}
  \cup {List(<<Segment(T_start, T_end, List(<<P_plain>>), Absent, Absent), seg>>) :
          seg \in MalformedSegments}
Documents ==
  {MapOf(<<<<"rawSignals", p>>, <<"semanticSegments", sg>>>>) :
     p \in PositionParts, sg \in SegmentParts}
  \cup {List(<<>>), List(<<Pos_full>>), Str(<<"s">>), Null}

---------------------------------------------------------------------------
(* The run of convert_timeline_to_csv, stage by stage *)

FnIdle == arg = Null /\ ret = <<>>

Init ==
  /\ pc = "load"
  /\ json_file \in {[readable |-> FALSE]} \cup {[readable |-> TRUE, doc |-> d] : d \in Documents}
  /\ csv_ok = TRUE
  /\ data = Null /\ found_positions = <<>>
  /\ timeline_data = <<>> /\ row_src = <<>> /\ seg_i = 0
  /\ df = <<>> /\ csv_file = NoFile /\ outcome = "none"
  /\ FnIdle

\* lines 76-77; open or json.load raising ends the run in the handler of line 233
Load ==
  /\ pc = "load"
  /\ IF json_file.readable
     THEN data' = json_file.doc /\ pc' = "positions" /\ UNCHANGED outcome
     ELSE outcome' = "read_error" /\ pc' = "done" /\ UNCHANGED data
  /\ UNCHANGED <<arg, ret, json_file, csv_ok, found_positions, timeline_data, row_src,
                 seg_i, df, csv_file>>

\* lines 106-130
Positions ==
  /\ pc = "positions"
  /\ found_positions' = find_positions(data, <<>>)
  /\ timeline_data' = [k \in 1..Len(found_positions') |->
                         position_entry(NodeAt(data, found_positions'[k]))]
  /\ row_src' = [k \in 1..Len(found_positions') |-> <<0, "position", k>>]
  /\ pc' = "segments"
  /\ UNCHANGED <<arg, ret, json_file, csv_ok, data, seg_i, df, csv_file, outcome>>

\* lines 133-134: data.get raises AttributeError when the root is no dict, len
\* raises TypeError when the value has no length
GetSegments ==
  /\ pc = "segments"
  /\ IF data.t # "map" \/ semantic_segments.exc
     THEN outcome' = "extract_error" /\ pc' = "done" /\ UNCHANGED seg_i
     ELSE seg_i' = 1 /\ pc' = "segment" /\ UNCHANGED outcome
  /\ UNCHANGED <<arg, ret, json_file, csv_ok, data, found_positions, timeline_data, row_src,
                 df, csv_file>>

\* lines 136-206, one pass of the loop
ProcessSegment ==
  /\ pc = "segment"
  /\ seg_i <= Len(semantic_segments.v)
  /\ LET r == process_segment(semantic_segments.v[seg_i])
     IN /\ timeline_data' = timeline_data \o r.rows
        /\ row_src' = row_src \o [j \in 1..Len(r.kinds) |-> <<seg_i, r.kinds[j][1], r.kinds[j][2]>>]
        /\ IF r.exc
           THEN outcome' = "extract_error" /\ pc' = "done" /\ UNCHANGED seg_i
           ELSE seg_i' = seg_i + 1 /\ UNCHANGED <<pc, outcome>>
  /\ UNCHANGED <<arg, ret, json_file, csv_ok, data, found_positions, df, csv_file>>

\* lines 209-211, after the loop
CheckEmpty ==
  /\ pc = "segment"
  /\ seg_i > Len(semantic_segments.v)
  /\ IF timeline_data = <<>>
     THEN outcome' = "empty_warning" /\ pc' = "done"
     ELSE pc' = "sort" /\ UNCHANGED outcome
  /\ UNCHANGED <<arg, ret, json_file, csv_ok, data, found_positions, timeline_data, row_src,
                 seg_i, df, csv_file>>

\* lines 214-218; every row has the key 'Time', so the frame is always sorted
Sort ==
  /\ pc = "sort"
  /\ df' \in sort_values(timeline_data)
  /\ pc' = "write"
  /\ UNCHANGED <<arg, ret, json_file, csv_ok, data, found_positions, timeline_data, row_src,
                 seg_i, csv_file, outcome>>

\* lines 221-231; makedirs or to_csv raising ends the run in the handler
Write ==
  /\ pc = "write"
  /\ \E ok \in BOOLEAN :
       /\ csv_ok' = ok
       /\ IF ok
          THEN csv_file' = to_csv(timeline_data, df) /\ outcome' = "written"
          ELSE outcome' = "write_error" /\ UNCHANGED csv_file
  /\ pc' = "done"
  /\ UNCHANGED <<arg, ret, json_file, data, found_positions, timeline_data, row_src,
                 seg_i, df>>

Next == Load \/ Positions \/ GetSegments \/ ProcessSegment \/ CheckEmpty \/ Sort \/ Write
Spec == Init /\ [][Next]_vars

---------------------------------------------------------------------------
(* Claims about the helper functions *)

\* C1: find_positions returns every map node holding both 'LatLng' and
\* 'timestamp' exactly once, in document pre-order, and nothing else.
Children(obj) ==
  IF obj.t = "map" THEN [i \in 1..Len(obj.kv) |-> obj.kv[i][2]]
  ELSE IF obj.t = "list" THEN obj.items
  ELSE <<>>
RECURSIVE PreOrderPositions(_, _)
PreOrderPositions(obj, path) ==
  (IF IsPositionDict(obj) THEN <<path>> ELSE <<>>)
  \o Concat([i \in 1..Len(Children(obj)) |-> PreOrderPositions(Children(obj)[i], path \o <<i>>)])
C1_EachPositionOnceInPreOrder ==
  pc = "done" => ret = PreOrderPositions(arg, <<>>)

\* the shapes 'YYYY-MM-DD HH:MM:SS.mmm' and '±HH:MM'
IsTimestampForm(s) ==
  /\ Len(s) = 23
  /\ s[5] = "-" /\ s[8] = "-" /\ s[11] = " " /\ s[14] = ":" /\ s[17] = ":" /\ s[20] = "."
  /\ \A i \in (1..23) \ {5, 8, 11, 14, 17, 20} : IsDigit(s[i])
IsOffsetForm(s) ==
  /\ Len(s) = 6
  /\ s[1] \in {"+", "-"} /\ s[4] = ":"
  /\ \A i \in {2, 3, 5, 6} : IsDigit(s[i])
IsIsoInput(v) == v.t = "str" /\ v.s \in IsoStrings
\* the input ends in a UTC-offset suffix
HasOffsetSuffix(v) == v.s[Len(v.s)] = "Z" \/ (v.s[Len(v.s) - 2] = ":" /\ v.s[Len(v.s) - 5] \in {"+", "-"})
\* the date and the clock time of the result are those written in the input
SameLocalClock(v, f) ==
  /\ SubSeq(f, 1, 10) = SubSeq(v.s, 1, 10)
  /\ SubSeq(f, 12, 19) = SubSeq(v.s, 12, 19)
Example_iso == IsoString(2023, 6, 1, 14, 30, 0, <<".", "2", "5", "0">>, <<"+", "0", "5", ":", "0", "0">>)
Example_formatted ==
  <<"2", "0", "2", "3", "-", "0", "6", "-", "0", "1", " ", "1", "4", ":", "3", "0", ":", "0", "0",
    ".", "2", "5", "0">>

\* C7 as stated: parse_datetime returns (absent, absent) for empty, absent or
\* unparseable input and otherwise a 'YYYY-MM-DD HH:MM:SS.mmm' timestamp with
\* an offset of the form ±HH:MM, never any other pair.
C7_OffsetAlwaysSignedForm ==
  pc = "done" =>
    IF IsIsoInput(arg)
    THEN /\ ret[1].t = "str" /\ IsTimestampForm(ret[1].s)
         /\ ret[2].t = "str" /\ IsOffsetForm(ret[2].s)
    ELSE ret = <<Null, Null>>

\* C7 amended: as C7, except that the offset is the empty string, not ±HH:MM,
\* when the timestamp has no UTC-offset suffix.
C7_WellFormedPair ==
  pc = "done" =>
    IF IsIsoInput(arg)
    THEN /\ ret[1].t = "str" /\ IsTimestampForm(ret[1].s) /\ SameLocalClock(arg, ret[1].s)
         /\ ret[2].t = "str"
         /\ IF HasOffsetSuffix(arg) THEN IsOffsetForm(ret[2].s) ELSE ret[2].s = <<>>
         /\ arg.s = Example_iso =>
              ret = <<Str(Example_formatted), Str(<<"+", "0", "5", ":", "0", "0">>)>>
    ELSE ret = <<Null, Null>>
C7_Witness_NaiveTimestamp ==
  /\ pc = "done" /\ IsIsoInput(arg) /\ ~HasOffsetSuffix(arg)
  /\ ret[1].t = "str" /\ ret[2] = Str(<<>>)

\* C8: clean_and_parse_coordinates returns two numbers exactly when the
\* string, cleaned of non-ASCII characters, degree signs and spaces, is two
\* numeric components around one comma, and (absent, absent) for every other
\* input; a decorated string gives the result of its clean form.
Decoration == NonAscii \cup {"°", " "}
Undecorated(s) == SelectSeq(s, LAMBDA c : c \notin Decoration)
Commas(s) == Cardinality({i \in 1..Len(s) : s[i] = ","})
IsNumeral(s) ==
  LET mag == IF s # <<>> /\ s[1] \in {"+", "-"} THEN Tail(s) ELSE s
  IN /\ \A i \in 1..Len(mag) : IsDigit(mag[i]) \/ mag[i] = "."
     /\ Cardinality({i \in 1..Len(mag) : mag[i] = "."}) <= 1
     /\ \E i \in 1..Len(mag) : IsDigit(mag[i])
BeforeComma(s) == SubSeq(s, 1, (CHOOSE i \in 1..Len(s) : s[i] = ",") - 1)
AfterComma(s) == SubSeq(s, (CHOOSE i \in 1..Len(s) : s[i] = ",") + 1, Len(s))
IsCoordinatePair(v) ==
  /\ v.t = "str"
  /\ Commas(Undecorated(v.s)) = 1
  /\ IsNumeral(BeforeComma(Undecorated(v.s)))
  /\ IsNumeral(AfterComma(Undecorated(v.s)))
Example_pair == <<Float(FALSE, <<"1", "2", "5">>, 1), Float(TRUE, <<"6", "7", "2", "5">>, 2)>>
C8_CoordinatesTotal ==
  pc = "done" =>
    /\ IF IsCoordinatePair(arg)
       THEN /\ ret[1].t = "float" /\ ret[2].t = "float"
            /\ ret[1] = float(BeforeComma(Undecorated(arg.s))).v
            /\ ret[2] = float(AfterComma(Undecorated(arg.s))).v
       ELSE ret = <<Null, Null>>
    /\ arg.t = "str" => ret = clean_and_parse_coordinates(Str(Undecorated(arg.s)))
    /\ arg \in {Str(Example_clean), Str(Example_decorated)} => ret = Example_pair
C8_Witness_DecoratedPair ==
  /\ pc = "done" /\ arg = Str(Example_decorated) /\ ret = Example_pair

---------------------------------------------------------------------------
(* Claims about convert_timeline_to_csv *)

\* the extraction of lines 106-206 ran to its end
Extracted ==
  \/ pc \in {"sort", "write"}
  \/ pc = "done" /\ outcome \in {"written", "write_error", "empty_warning"}
\* a key of a dict holds a value other than null
Present(obj, key) == HasKey(obj, key) /\ Get(obj, key, Null).t # "null"
RowsOf(i, kind) == {r \in 1..Len(row_src) : row_src[r][1] = i /\ row_src[r][2] = kind}
SegmentList == Get(data, "semanticSegments", List(<<>>))

\* C2: for a readable document only a write failure keeps the rows of the
\* well-formed records from being written: a malformed segment among the
\* records does not discard the positions found in the document.
C2_MalformedRecordKeepsOtherRows ==
  (/\ pc = "done" /\ json_file.readable
   /\ data.t = "map" /\ SegmentList.t = "list"
   /\ found_positions # <<>>)
  => /\ outcome \in {"written", "write_error"}
     /\ outcome = "written" => Len(csv_file.rows) >= Len(found_positions)

\* C3 as stated: the rows written are the extracted rows in ascending order of
\* 'Time', rows of equal 'Time' in their order of extraction.
StableOrder(rows) ==
  LET timed == {i \in 1..Len(rows) : RowTime(rows[i]).t # "null"}
      Before(i, j) == \/ StrLess(RowTime(rows[i]).s, RowTime(rows[j]).s)
                      \/ RowTime(rows[i]).s = RowTime(rows[j]).s /\ i < j
      Rank(i) == Cardinality({j \in timed : Before(j, i)}) + 1
  IN [k \in 1..Cardinality(timed) |-> CHOOSE i \in timed : Rank(i) = k]
     \o Ascending((1..Len(rows)) \ timed)
TimeColumn == CHOOSE c \in 1..Len(csv_file.header) : csv_file.header[c] = "Time"
CsvTime(i) == csv_file.rows[i][TimeColumn].s
C4_NothingToConvertWarns ==
  (/\ pc = "done" /\ json_file.readable
   /\ PreOrderPositions(json_file.doc, <<>>) = <<>>
   /\ \/ json_file.doc.t # "map"
      \/ ~HasKey(json_file.doc, "semanticSegments")
      \/ Get(json_file.doc, "semanticSegments", Null) = List(<<>>))
  => outcome = "empty_warning" /\ csv_file = NoFile

\* C5: each segment gives one 'Timeline Path' row per point, in input order,
\* one 'Visit' row exactly if it has a visit sub-record and one 'Activity' row
\* exactly if it has an activity sub-record, whatever the sub-record holds;
\* the Visit and Activity rows carry the segment's start time.
C5_IndependentExtractions ==
  Extracted =>
    \A i \in 1..Len(SegmentList.items) :
      LET segment == SegmentList.items[i]
          start == parse_datetime(Get(segment, "startTime", Null))
      IN /\ Cardinality(RowsOf(i, "path")) = Len(Get(segment, "timelinePath", List(<<>>)).items)
         /\ Cardinality(RowsOf(i, "visit")) = IF Present(segment, "visit") THEN 1 ELSE 0
         /\ Cardinality(RowsOf(i, "activity")) = IF Present(segment, "activity") THEN 1 ELSE 0
         /\ \A r \in RowsOf(i, "visit") \cup RowsOf(i, "activity") :
              RowTime(timeline_data[r]) = start[1]

\* C6: the header of the file written is the union of the columns of the
\* rows, each once, and every data row has one field per header column, empty
\* where the row has no value for the column.
RowKeys(row) == {row.kv[k][1] : k \in 1..Len(row.kv)}
C6_HeaderIsUnionOfColumns ==
  outcome = "written" =>
    /\ {csv_file.header[c] : c \in 1..Len(csv_file.header)}
         = UNION {RowKeys(timeline_data[r]) : r \in 1..Len(timeline_data)}
    /\ \A c, d \in 1..Len(csv_file.header) : csv_file.header[c] = csv_file.header[d] => c = d
    /\ \A i \in 1..Len(csv_file.rows) :
         /\ Len(csv_file.rows[i]) = Len(csv_file.header)
         /\ \A c \in 1..Len(csv_file.header) :
              LET row == timeline_data[df[i]]
                  column == csv_file.header[c]
              IN IF column \in RowKeys(row) /\ Get(row, column, Null).t # "null"
                 THEN csv_file.rows[i][c] = Get(row, column, Null)
                 ELSE csv_file.rows[i][c] = Str(<<>>)
C6_Witness_MixedRowKinds ==
  /\ outcome = "written"
  /\ {"Accuracy Meters", "Place ID", "Distance Meters"}
       \subseteq {csv_file.header[c] : c \in 1..Len(csv_file.header)}
  /\ \E i \in 1..Len(csv_file.rows) : \E c \in 1..Len(csv_file.header) :
       /\ csv_file.header[c] = "Place ID"
       /\ csv_file.rows[i][c] = Str(<<>>)

\* C9: the row of a timeline-path point has the point's own parsed time as
\* 'Time' when the point has one and the segment's start time otherwise, and,
\* whichever that was, the point's own offset as 'Time Offset' when the point
\* has one and the segment's start offset otherwise; 'Start Time' and 'End
\* Time' are the segment's.
HasValue(v) == v.t = "str" /\ v.s # <<>>
Formatted_point_naive ==
  <<"2", "0", "2", "3", "-", "0", "6", "-", "0", "1", " ", "1", "4", ":", "2", "9", ":", "0", "0",
    ".", "0", "0", "0">>
C9_PathRowTimeFallback ==
  \A r \in 1..Len(timeline_data) :
    row_src[r][2] = "path" =>
      LET segment == SegmentList.items[row_src[r][1]]
          path == Get(segment, "timelinePath", List(<<>>)).items[row_src[r][3]]
          row == timeline_data[r]
          own == parse_datetime(Get(path, "time", Null))
          start == parse_datetime(Get(segment, "startTime", Null))
          end == parse_datetime(Get(segment, "endTime", Null))
      IN /\ Get(row, "Time", Absent) = IF HasValue(own[1]) THEN own[1] ELSE start[1]
         /\ Get(row, "Time Offset", Absent) = IF HasValue(own[2]) THEN own[2] ELSE start[2]
         /\ Get(row, "Start Time", Absent) = start[1]
         /\ Get(row, "Start Time Offset", Absent) = start[2]
         /\ Get(row, "End Time", Absent) = end[1]
         /\ Get(row, "End Time Offset", Absent) = end[2]
         /\ Get(row, "Segment Type", Absent) = Str(<<"Timeline Path">>)
C9_Witness_OwnTimeSegmentOffset ==
  \E r \in 1..Len(timeline_data) :
    /\ row_src[r][2] = "path"
    /\ Get(timeline_data[r], "Time", Absent) = Str(Formatted_point_naive)
    /\ Get(timeline_data[r], "Time Offset", Absent) = Str(<<"+", "0", "5", ":", "0", "0">>)
    /\ Get(timeline_data[r], "Start Time", Absent) = Str(Example_formatted)

\* C10: every run ends in one of four outcomes: file written, empty-result
\* warning without a file, document read failure, write failure; the file is
\* written only after the extraction and only when there is a row.
C10_FourOutcomes ==
  /\ pc = "done" => outcome \in {"written", "empty_warning", "read_error", "write_error"}
  /\ csv_file # NoFile => pc = "done" /\ outcome = "written" /\ timeline_data # <<>>
  /\ outcome = "empty_warning" => csv_file = NoFile /\ timeline_data = <<>>

====
